---- MODULE Spec2Model ----
(***************************************************************************)
(* A model of PyNite's rectangular wall panel example (class RectWall of   *)
(* "Examples/Out-of-Plane Wall Panel - Quads.py") and of the steel section *)
(* yield surface (PyNite/Section.py).                                      *)
(*                                                                         *)
(* Python floats are modelled as exact rationals <<n, d>> with d > 0, kept *)
(* in lowest terms, so that equal values are equal tuples.  Lengths and    *)
(* pressures given to the constructor and to add_load are integers.        *)
(***************************************************************************)
EXTENDS Integers, Sequences, FiniteSets, TLC

VARIABLES
    width, height, mesh_size,       \* RectWall geometry (constructor arguments)
    bot_support, top_support,       \* RectWall edge support policies
    left_support, right_support,
    loads,                          \* RectWall.loads: sequence of <<y_bot, y_top, p_bot, p_top>>
    analyzed,                       \* RectWall.__analyzed
    fem,                            \* RectWall.fem: [Nodes, Quads] of the FEModel3D
    outcome,                        \* how the last analyze() call ended ("none" before the first)
    n_analyze,                      \* number of analyze() calls made so far
    n_add,                          \* number of add_load() calls made so far
    last,                           \* history: the last operation called on the wall
    solved_since,                   \* history: an analyze() has completed since the last mutation
    section,                        \* SteelSection: [fy, A, Zy, Zz] (fy of its material)
    point,                          \* the arguments [fx, my, mz] of the last call of Phi or G
    result                          \* the last call and what it returned

wallVars == <<width, height, mesh_size, bot_support, top_support, left_support,
              right_support, loads, analyzed, fem, outcome, n_analyze, n_add,
              last, solved_since>>
sectionVars == <<section, point, result>>
vars == <<width, height, mesh_size, bot_support, top_support, left_support,
          right_support, loads, analyzed, fem, outcome, n_analyze, n_add,
          last, solved_since, section, point, result>>

----------------------------------------------------------------------------
(* Bounds of the model *)

MaxLoads == 2        \* add_load() calls on one wall
MaxAnalyze == 2      \* analyze() calls on one wall
MaxDim == 2          \* largest width and height
MaxMesh == 2         \* largest mesh size
MaxGeomDim == 3      \* largest width and height, degenerate geometry included
MaxGeomMesh == 4     \* largest mesh size, degenerate geometry included
MaxSupDim == 2       \* largest width and height, every support policy tried
MaxY == 1            \* largest load band boundary
MaxP == 2            \* largest end pressure of a load band
MaxExampleP == 40    \* largest pressure tried in the example script
MaxForce == 2        \* largest |fx|, |my|, |mz| given to Phi and G
MaxProperty == 2     \* largest fy, A, Zy, Zz of a steel section

----------------------------------------------------------------------------
(* Exact rational arithmetic standing for Python float arithmetic *)

Abs(n) == IF n < 0 THEN -n ELSE n

RECURSIVE GCD(_, _)
GCD(a, b) == IF b = 0 THEN a ELSE GCD(b, a % b)

\* The rational n/d (d # 0) in lowest terms with a positive denominator.
Rat(n, d) ==
    LET g == GCD(Abs(n), Abs(d))
        s == IF d < 0 THEN -1 ELSE 1
    IN  <<(s * n) \div g, (s * d) \div g>>

R(n) == <<n, 1>>
RAdd(a, b) == Rat(a[1] * b[2] + b[1] * a[2], a[2] * b[2])
RSub(a, b) == Rat(a[1] * b[2] - b[1] * a[2], a[2] * b[2])
RMul(a, b) == Rat(a[1] * b[1], a[2] * b[2])
RDiv(a, b) == Rat(a[1] * b[2], a[2] * b[1])
RLe(a, b) == a[1] * b[2] <= b[1] * a[2]
RLt(a, b) == a[1] * b[2] < b[1] * a[2]

\* Python's round(x) of a float: to the nearest integer, ties to the even one.
round(r) ==
    LET q == r[1] \div r[2]
        rem == r[1] - q * r[2]
    IN  IF 2 * rem < r[2] THEN q
        ELSE IF 2 * rem > r[2] THEN q + 1
        ELSE IF q % 2 = 0 THEN q ELSE q + 1

\* Python's int(x) of a float: truncation towards zero.
int(r) == IF r[1] >= 0 THEN r[1] \div r[2] ELSE -((-r[1]) \div r[2])

max(a, b) == IF a >= b THEN a ELSE b

\* numpy.isclose(a, b) with its default rtol = 1e-05 and atol = 1e-08:
\* |a - b| <= atol + rtol * |b|, here multiplied through by 1e8 * a[2] * b[2].
isclose(a, b) ==
    Abs(a[1] * b[2] - b[1] * a[2]) <= (a[2] * (b[2] + 1000 * Abs(b[1]))) \div 100000000

\* The elements of a finite set of integers in ascending order (list.sort()).
RECURSIVE sort(_)
sort(S) ==
    IF S = {} THEN <<>>
    ELSE LET m == CHOOSE x \in S : \A z \in S : x <= z
         IN  <<m>> \o sort(S \ {m})

----------------------------------------------------------------------------
(* FEModel3D: the model the wall fills in *)

EmptyModel == [Nodes |-> <<>>, Quads |-> <<>>]

\* Node3D(Name, X, Y, Z): a new node, every support flag False.
Node3D(Name, X, Y) ==
    [Name |-> Name, X |-> X, Y |-> Y,
     SupportDX |-> FALSE, SupportDY |-> FALSE, SupportDZ |-> FALSE,
     SupportRX |-> FALSE, SupportRY |-> FALSE, SupportRZ |-> FALSE]

\* FEModel3D.GetNode(Name): the position in Nodes of the first node of that
\* name, 0 (None) when there is none.
GetNode(Nodes, Name) ==
    LET hits == {k \in 1..Len(Nodes) : Nodes[k].Name = Name}
    IN  IF hits = {} THEN 0 ELSE CHOOSE k \in hits : \A z \in hits : k <= z

\* Quad3D(Name, iNode, jNode, mNode, nNode, ...): a new quadrilateral on the
\* four nodes given (positions in Nodes), with no pressures.
Quad3D(Name, iNode, jNode, mNode, nNode) ==
    [Name |-> Name, iNode |-> iNode, jNode |-> jNode, mNode |-> mNode,
     nNode |-> nNode, pressures |-> <<>>]

\* FEModel3D.ClearLoads(): every load of the model is removed.
ClearLoads(model) ==
    [model EXCEPT !.Quads = [q \in 1..Len(model.Quads) |->
                                [model.Quads[q] EXCEPT !.pressures = <<>>]]]

----------------------------------------------------------------------------
(* RectWall.__descritize *)

\* The number of columns of quads.
num_cols(w, ms) == round(Rat(w, ms))

\* (mutant) one row too many.
num_rows_one_more(h, ms) == max(1, round(Rat(h, ms))) + 1

\* The number of rows of quads in a lift of height h.
num_rows(h, ms) == max(1, round(Rat(h, ms)))

\* The mesh control points along the height: the bottom and the top of the
\* wall, and, once there is a load, every load boundary, without duplicates
\* and sorted (the list is made a set and sorted inside the loop over the
\* loads only).
ControlPoints(h, lds) ==
    IF lds = <<>> THEN <<0, h>>
    ELSE sort({0, h} \cup {lds[k][1] : k \in 1..Len(lds)}
                     \cup {lds[k][2] : k \in 1..Len(lds)})

\* The nodes of one lift: rows j = 1..rows (row 0 is already there), each of
\* nc + 1 nodes, named from node_id on.
LiftNodes(rows, nc, pl_width, pl_height, y_prev, node_id) ==
    LET per == max(0, nc + 1)
    IN  [n \in 1..(rows * per) |->
            LET j == ((n - 1) \div per) + 1
                i == (n - 1) % per
            IN  Node3D(node_id + n - 1,
                       RMul(R(i), pl_width),
                       RAdd(RMul(R(j), pl_height), y_prev))]

\* (mutant) the first node of a quadrilateral without the offset of one node
\* per row of quadrilaterals before it.
LiftQuads_no_row_offset(rows, nc, pl_id, Nodes) ==
    LET count == rows * max(0, nc)
        ni(id) == id
        found == [name \in ni(pl_id)..(ni(pl_id + count - 1) + nc + 2) |->
                     GetNode(Nodes, name)]
    IN  [q \in 1..count |->
            LET id == pl_id + q - 1
                nj == ni(id) + 1
                nm == nj + (nc + 1)
                nn == nm - 1
            IN  Quad3D(id, found[ni(id)], found[nj], found[nm], found[nn])]

\* The quadrilaterals of one lift, named from pl_id on; Nodes are the nodes
\* of the model once the lift's nodes have been added.  AddQuad looks the
\* four node names up with GetNode; `found` holds these lookups.
LiftQuads(rows, nc, pl_id, Nodes) ==
    LET count == rows * max(0, nc)
        ni(id) == id + max(0, int(Rat(id - 1, nc)))
        found == [name \in ni(pl_id)..(ni(pl_id + count - 1) + nc + 2) |->
                     GetNode(Nodes, name)]
    IN  [q \in 1..count |->
            LET id == pl_id + q - 1
                nj == ni(id) + 1
                nm == nj + (nc + 1)
                nn == nm - 1
            IN  Quad3D(id, found[ni(id)], found[nj], found[nm], found[nn])]

\* The loop over the control points after the first one.
RECURSIVE Lifts(_, _, _, _, _, _, _, _, _)
Lifts(y, k, y_prev, node_id, pl_id, nc, pl_width, ms, model) ==
    IF k > Len(y) THEN model
    ELSE LET control_point == y[k]
             h == control_point - y_prev
             rows == num_rows(h, ms)
             pl_height == Rat(h, rows)
             newNodes == LiftNodes(rows, nc, pl_width, pl_height, R(y_prev), node_id)
             Nodes == model.Nodes \o newNodes
             newQuads == LiftQuads(rows, nc, pl_id, Nodes)
         IN  Lifts(y, k + 1, control_point, node_id + Len(newNodes),
                   pl_id + Len(newQuads), nc, pl_width, ms,
                   [Nodes |-> Nodes, Quads |-> model.Quads \o newQuads])

\* The bottom row of nodes, N1 .. N(nc+1).
BottomRow(nc, pl_width) ==
    [i \in 1..max(0, nc + 1) |-> Node3D(i, RMul(R(i - 1), pl_width), R(0))]

\* __descritize on a wall of the given geometry and loads whose model is
\* `model`: the model afterwards, and the exception that ended it ("" when
\* it returned).  Both divisions that can fail come before the first AddNode.
descritize(w, h, ms, lds, model) ==
    IF ms = 0 \/ num_cols(w, ms) = 0
    THEN [model |-> model, err |-> "ZeroDivisionError in __descritize"]
    ELSE LET nc == num_cols(w, ms)
             pl_width == Rat(w, nc)
             y == ControlPoints(h, lds)
             bottom == BottomRow(nc, pl_width)
         IN  [model |-> Lifts(y, 2, 0, Len(bottom) + 1, 1, nc, pl_width, ms,
                              [model EXCEPT !.Nodes = @ \o bottom]),
              err |-> ""]

----------------------------------------------------------------------------
(* RectWall.__define_supports *)

Policies == {"Free", "Pinned", "Fixed", "Roller"}

\* (mutant) "Pinned" restrains the rotation about X as well.
restrain_pinned_rx(node, policy) ==
    IF policy = "Fixed"
    THEN [node EXCEPT !.SupportDX = TRUE, !.SupportDY = TRUE, !.SupportDZ = TRUE,
                      !.SupportRX = TRUE, !.SupportRY = TRUE]
    ELSE IF policy = "Pinned"
    THEN [node EXCEPT !.SupportDX = TRUE, !.SupportDY = TRUE, !.SupportDZ = TRUE,
                      !.SupportRX = TRUE]
    ELSE node

\* The restraints a support policy sets on a node.
restrain(node, policy) ==
    IF policy = "Fixed"
    THEN [node EXCEPT !.SupportDX = TRUE, !.SupportDY = TRUE, !.SupportDZ = TRUE,
                      !.SupportRX = TRUE, !.SupportRY = TRUE]
    ELSE IF policy = "Pinned"
    THEN [node EXCEPT !.SupportDX = TRUE, !.SupportDY = TRUE, !.SupportDZ = TRUE]
    ELSE node

\* (mutant) the bottom and top edges are tested before the left and right.
support_node_rows_first(node, w, h, pol) ==
    IF isclose(node.Y, R(0)) THEN restrain(node, pol.bot)
    ELSE IF isclose(node.Y, R(h)) THEN restrain(node, pol.top)
    ELSE IF isclose(node.X, R(0)) THEN restrain(node, pol.left)
    ELSE IF isclose(node.X, R(w)) THEN restrain(node, pol.right)
    ELSE node

\* One node of the loop: the first edge test that succeeds decides.
support_node(node, w, h, pol) ==
    IF isclose(node.X, R(0)) THEN restrain(node, pol.left)
    ELSE IF isclose(node.X, R(w)) THEN restrain(node, pol.right)
    ELSE IF isclose(node.Y, R(0)) THEN restrain(node, pol.bot)
    ELSE IF isclose(node.Y, R(h)) THEN restrain(node, pol.top)
    ELSE node

define_supports(model, w, h, pol) ==
    [model EXCEPT !.Nodes = [k \in 1..Len(model.Nodes) |->
                                support_node(model.Nodes[k], w, h, pol)]]

----------------------------------------------------------------------------
(* RectWall.analyze: the loop that adds the quad loads *)

\* The average Y coordinate of the four corner nodes of a quadrilateral.
avgY(quad, Nodes) ==
    RDiv(RAdd(RAdd(Nodes[quad.iNode].Y, Nodes[quad.jNode].Y),
              RAdd(Nodes[quad.mNode].Y, Nodes[quad.nNode].Y)), R(4))

\* The pressure of one load band at height y (the band is not of zero height).
band_pressure(load, y) ==
    RAdd(RMul(Rat(load[4] - load[3], load[2] - load[1]), RSub(y, R(load[1]))),
         R(load[3]))

\* The inner loop over the loads for one quadrilateral, from load k on, with
\* the pressure summed and the entries appended so far.  A band of zero
\* height holding the centroid divides by zero.
RECURSIVE quad_loads(_, _, _, _, _)
quad_loads(y, lds, k, pressure, entries) ==
    IF k > Len(lds) THEN [pressures |-> entries, err |-> ""]
    ELSE LET y1 == lds[k][1]
             y2 == lds[k][2]
         IN  IF RLe(y, R(y2)) /\ RLe(R(y1), y)
             THEN IF y2 - y1 = 0
                  THEN [pressures |-> entries, err |-> "ZeroDivisionError in analyze"]
                  ELSE LET p == RAdd(pressure, band_pressure(lds[k], y))
                       IN  quad_loads(y, lds, k + 1, p,
                                      Append(entries, <<p, "Case 1">>))
             ELSE quad_loads(y, lds, k + 1, pressure, entries)

\* The loop over the quadrilaterals: it stops at the first one that raises.
add_quad_loads(model, lds) ==
    LET n == Len(model.Quads)
        res == [q \in 1..n |->
                   quad_loads(avgY(model.Quads[q], model.Nodes), lds, 1, R(0),
                              model.Quads[q].pressures)]
        bad == {q \in 1..n : res[q].err # ""}
        stop == IF bad = {} THEN n + 1 ELSE CHOOSE q \in bad : \A z \in bad : q <= z
    IN  [model |-> [model EXCEPT !.Quads =
                       [q \in 1..n |->
                           IF q <= stop
                           THEN [model.Quads[q] EXCEPT !.pressures = res[q].pressures]
                           ELSE model.Quads[q]]],
         err |-> IF bad = {} THEN "" ELSE "ZeroDivisionError in analyze"]

\* analyze() up to the call of the solver: the model handed to fem.Analyze(),
\* or the model as the exception left it.
assemble(w, h, ms, lds, pol, model) ==
    LET meshed == descritize(w, h, ms, lds, model)
    IN  IF meshed.err # "" THEN meshed
        ELSE add_quad_loads(define_supports(meshed.model, w, h, pol), lds)

----------------------------------------------------------------------------
(* The operations of RectWall *)

policies == [bot |-> bot_support, top |-> top_support,
             left |-> left_support, right |-> right_support]

\* RectWall.add_load(y_bot, y_top, p_bot, p_top)
add_load(y_bot, y_top, p_bot, p_top) ==
    /\ n_add < MaxLoads
    /\ n_add' = n_add + 1
    /\ loads' = Append(loads, <<y_bot, y_top, p_bot, p_top>>)
    /\ analyzed' = FALSE
    /\ solved_since' = FALSE
    /\ last' = "add_load"
    /\ UNCHANGED <<width, height, mesh_size, bot_support, top_support,
                   left_support, right_support, fem, outcome, n_analyze>>
    /\ UNCHANGED sectionVars

\* RectWall.clear_loads()
clear_loads ==
    /\ loads' = <<>>
    /\ analyzed' = FALSE
    /\ fem' = ClearLoads(fem)
    /\ solved_since' = FALSE
    /\ last' = "clear_loads"
    /\ UNCHANGED <<width, height, mesh_size, bot_support, top_support,
                   left_support, right_support, outcome, n_analyze, n_add>>
    /\ UNCHANGED sectionVars

\* How analyze() ends once the model is assembled: the solver (fem.Analyze(),
\* a collaborator) returns or raises, and the search for the largest
\* displacement starts from fem.Nodes[0].
finish(assembled, solved) ==
    IF assembled.err # "" THEN assembled.err
    ELSE IF ~solved THEN "SolverError"
    ELSE IF Len(assembled.model.Nodes) = 0 THEN "IndexError"
    ELSE "done"

\* RectWall.analyze()
analyze ==
    /\ n_analyze < MaxAnalyze
    /\ LET assembled == assemble(width, height, mesh_size, loads, policies, fem)
       IN  /\ fem' = assembled.model
           /\ \E solved \in BOOLEAN :
                /\ outcome' = finish(assembled, solved)
                /\ solved_since' = (solved_since \/ finish(assembled, solved) = "done")
    /\ n_analyze' = n_analyze + 1
    /\ last' = "analyze"
    /\ UNCHANGED <<width, height, mesh_size, bot_support, top_support,
                   left_support, right_support, loads, analyzed, n_add>>
    /\ UNCHANGED sectionVars

\* The state of a wall after RectWall.__init__, with the section part idle.
Constructed(w, h, ms, bot, top, left, right) ==
    /\ width = w /\ height = h /\ mesh_size = ms
    /\ bot_support = bot /\ top_support = top
    /\ left_support = left /\ right_support = right
    /\ loads = <<>>
    /\ analyzed = FALSE
    /\ fem = EmptyModel
    /\ outcome = "none"
    /\ n_analyze = 0
    /\ n_add = 0
    /\ last = "__init__"
    /\ solved_since = FALSE

SectionIdle ==
    /\ section = [fy |-> 1, A |-> 1, Zy |-> 1, Zz |-> 1]
    /\ point = [fx |-> 0, my |-> 0, mz |-> 0]
    /\ result = [call |-> "none"]

\* Walls of positive geometry with the constructor's default supports, under
\* load bands that may start below the wall or end above it.
Init ==
    /\ \E w \in 1..MaxDim, h \in 1..MaxDim, ms \in 1..MaxMesh :
          Constructed(w, h, ms, "Pinned", "Pinned", "Free", "Free")
    /\ SectionIdle

Next ==
    \/ \E y_bot \in (-1)..MaxY, y_top \in (-1)..MaxY, p_bot \in 1..MaxP, p_top \in 1..MaxP :
          add_load(y_bot, y_top, p_bot, p_top)
    \/ clear_loads
    \/ analyze

Spec == Init /\ [][Next]_vars

\* Walls of any integer geometry, degenerate ones included, under uniform
\* load bands inside the wall.
InitGeometry ==
    /\ \E w \in (-1)..MaxGeomDim, h \in (-1)..MaxGeomDim, ms \in (-1)..MaxGeomMesh :
          Constructed(w, h, ms, "Pinned", "Pinned", "Free", "Free")
    /\ SectionIdle

NextGeometry ==
    \/ \E y_bot \in 0..1, y_top \in 0..1 : add_load(y_bot, y_top, 1, 1)
    \/ clear_loads
    \/ analyze

SpecGeometry == InitGeometry /\ [][NextGeometry]_vars

\* Walls of positive geometry with every combination of edge support
\* policies, an unrecognised one included; as in the example script, a wall
\* is loaded with uniform bands over its whole height and then analysed.
InitSupports ==
    /\ \E w \in 1..MaxSupDim, h \in 1..MaxSupDim,
          bot \in Policies, top \in Policies, left \in Policies, right \in Policies :
          Constructed(w, h, 1, bot, top, left, right)
    /\ SectionIdle

NextSupports ==
    \/ n_analyze = 0 /\ add_load(0, height, 1, 1)
    \/ analyze

SpecSupports == InitSupports /\ [][NextSupports]_vars


\* The example script: a 120 x 240 wall of mesh size 6, fixed on its four
\* edges, gets one uniform load band over its whole height and is analysed.
InitExample ==
    /\ Constructed(120, 240, 6, "Fixed", "Fixed", "Fixed", "Fixed")
    /\ SectionIdle

NextExample ==
    \/ n_add = 0 /\ n_analyze = 0 /\ \E p \in 1..MaxExampleP : add_load(0, height, p, p)
    \/ n_analyze = 0 /\ analyze

SpecExample == InitExample /\ [][NextExample]_vars


----------------------------------------------------------------------------
(* SteelSection: the yield surface and its gradient *)

RECURSIVE pow(_, _)
pow(x, n) == IF n = 0 THEN 1 ELSE x * pow(x, n - 1)

RPow(r, n) == Rat(pow(r[1], n), pow(r[2], n))

\* Plastic strengths for material nonlinearity
Py(sec) == sec.fy * sec.A
Mpy(sec) == sec.fy * sec.Zy
Mpz(sec) == sec.fy * sec.Zz

\* SteelSection.Phi(fx, my, mz)
Phi(sec, fx, my, mz) ==
    LET p == Rat(fx, Py(sec))
        m_y == Rat(my, Mpy(sec))
        m_z == Rat(mz, Mpz(sec))
    IN  RAdd(RAdd(RAdd(RAdd(RAdd(
            RPow(p, 2),
            RPow(m_z, 2)),
            RPow(m_y, 4)),
            RMul(Rat(7, 2), RMul(RPow(p, 2), RPow(m_z, 2)))),
            RMul(R(3), RMul(RPow(p, 6), RPow(m_y, 2)))),
            RMul(Rat(9, 2), RMul(RPow(m_z, 4), RPow(m_y, 2))))

\* SteelSection.G(fx, my, mz): the partial derivatives as the code writes them
dPhi_dfx(sec, fx, my, mz) ==
    RAdd(RAdd(
        Rat(18 * pow(fx, 5) * pow(my, 2), pow(Mpy(sec), 2) * pow(Py(sec), 6)),
        Rat(2 * fx, pow(Py(sec), 2))),
        Rat(7 * fx * pow(mz, 2), pow(Mpz(sec), 2) * pow(Py(sec), 2)))

dPhi_dmy(sec, fx, my, mz) ==
    RAdd(RAdd(
        Rat(6 * pow(fx, 6) * my, pow(Mpy(sec), 2) * pow(Py(sec), 6)),
        Rat(2 * my, pow(Mpy(sec), 2))),
        Rat(9 * my * pow(mz, 4), pow(Mpy(sec), 2) * pow(Mpz(sec), 4)))

dPhi_dmz(sec, fx, my, mz) ==
    RAdd(RAdd(
        Rat(7 * pow(fx, 2) * mz, pow(Mpz(sec), 2) * pow(Py(sec), 2)),
        Rat(2 * mz, pow(Mpz(sec), 2))),
        Rat(18 * pow(my, 2) * pow(mz, 3), pow(Mpy(sec), 2) * pow(Mpz(sec), 4)))

G(sec, fx, my, mz) ==
    <<dPhi_dfx(sec, fx, my, mz), R(0), R(0), R(0),
      dPhi_dmy(sec, fx, my, mz), dPhi_dmz(sec, fx, my, mz)>>

\* A call of SteelSection.Phi
call_Phi(fx, my, mz) ==
    /\ point' = [fx |-> fx, my |-> my, mz |-> mz]
    /\ result' = [call |-> "Phi", value |-> Phi(section, fx, my, mz)]
    /\ UNCHANGED section
    /\ UNCHANGED wallVars

\* A call of SteelSection.G
call_G(fx, my, mz) ==
    /\ point' = [fx |-> fx, my |-> my, mz |-> mz]
    /\ result' = [call |-> "G", value |-> G(section, fx, my, mz)]
    /\ UNCHANGED section
    /\ UNCHANGED wallVars

\* Steel sections of every small fy, A, Zy and Zz, evaluated at integer
\* forces and moments of either sign.
InitSection ==
    /\ Constructed(1, 1, 1, "Pinned", "Pinned", "Free", "Free")
    /\ \E fy \in 1..MaxProperty, A \in 1..MaxProperty,
          Zy \in 1..MaxProperty, Zz \in 1..MaxProperty :
          section = [fy |-> fy, A |-> A, Zy |-> Zy, Zz |-> Zz]
    /\ point = [fx |-> 0, my |-> 0, mz |-> 0]
    /\ result = [call |-> "none"]

Forces == (0 - MaxForce)..MaxForce

NextSection ==
    \/ \E fx \in Forces, my \in Forces, mz \in Forces : call_Phi(fx, my, mz)
    \/ \E fx \in Forces, my \in Forces, mz \in Forces : call_G(fx, my, mz)

SpecSection == InitSection /\ [][NextSection]_vars


----------------------------------------------------------------------------
(* Properties *)

\* The last operation was an analyze() whose mesh generation returned.
Meshed == last = "analyze" /\ outcome # "ZeroDivisionError in __descritize"

\* The last operation was an analyze() that got past the loop adding the
\* quad loads.
Loaded == last = "analyze" /\ outcome \in {"done", "SolverError", "IndexError"}

NodeYs == {fem.Nodes[k].Y : k \in 1..Len(fem.Nodes)}

BandBoundaries == {loads[k][1] : k \in 1..Len(loads)} \cup {loads[k][2] : k \in 1..Len(loads)}

CornerYs(quad) == {fem.Nodes[quad.iNode].Y, fem.Nodes[quad.jNode].Y,
                   fem.Nodes[quad.mNode].Y, fem.Nodes[quad.nNode].Y}

\* C1: for positive width, height and mesh size and no load bands, one mesh
\* generation creates (cols+1)*(rows+1) nodes and cols*rows quadrilaterals,
\* with cols = max(1, round(width/mesh_size)), rows = max(1, round(height/mesh_size)).
C1_GridCounts ==
    (/\ width > 0 /\ height > 0 /\ mesh_size > 0
     /\ loads = <<>> /\ last = "analyze" /\ n_analyze = 1)
    => LET cols == max(1, round(Rat(width, mesh_size)))
           rows == max(1, round(Rat(height, mesh_size)))
       IN  /\ Len(fem.Nodes) = (cols + 1) * (rows + 1)
           /\ Len(fem.Quads) = cols * rows

\* C2: after mesh generation every load band boundary is the Y coordinate of
\* a row of nodes, and no quadrilateral has corners on both sides of a band
\* boundary.
C2_BandBoundariesAreRows ==
    Meshed =>
        \A b \in BandBoundaries :
            /\ R(b) \in NodeYs
            /\ \A q \in 1..Len(fem.Quads) :
                  ~(\E lo, hi \in CornerYs(fem.Quads[q]) : RLt(lo, R(b)) /\ RLt(R(b), hi))

\* The load bands that hold the height y, both ends included.
BandsHolding(y) == {k \in 1..Len(loads) : RLe(R(loads[k][1]), y) /\ RLe(y, R(loads[k][2]))}

RECURSIVE SumPressure(_, _)
SumPressure(K, y) ==
    IF K = {} THEN R(0)
    ELSE LET k == CHOOSE x \in K : TRUE
         IN  RAdd(band_pressure(loads[k], y), SumPressure(K \ {k}, y))

\* C4: in load distribution a quadrilateral whose centroid lies in at least
\* one band gets exactly one pressure entry, the sum of the bands' pressures
\* interpolated at the centroid; one whose centroid lies in no band gets none.
C4_OneSummedPressure ==
    (Loaded /\ n_analyze = 1) =>
        \A q \in 1..Len(fem.Quads) :
            LET y == avgY(fem.Quads[q], fem.Nodes)
                K == BandsHolding(y)
            IN  fem.Quads[q].pressures =
                    IF K = {} THEN <<>> ELSE << <<SumPressure(K, y), "Case 1">> >>

\* C7: when an analyze() finishes, the model holds exactly the nodes,
\* quadrilaterals and pressures that one analyze() of a fresh wall with the
\* current loads produces.
C7_RemeshFromScratch ==
    (last = "analyze" /\ outcome = "done") =>
        fem = assemble(width, height, mesh_size, loads, policies, EmptyModel).model

\* C8: the analysed flag is true exactly when an analyze() has completed
\* since the last mutation.
C8_DirtyFlag == analyzed = solved_since

\* C9: mesh generation with degenerate geometry ends in an error and leaves
\* the model without nodes and quadrilaterals.
C9_DegenerateFails ==
    ((width <= 0 \/ height <= 0 \/ mesh_size <= 0) /\ n_analyze >= 1) =>
        /\ outcome = "ZeroDivisionError in __descritize"
        /\ fem.Nodes = <<>>
        /\ fem.Quads = <<>>

\* The restraint flags set on a node.
Restrained(node) ==
    {f \in {"DX", "DY", "DZ", "RX", "RY", "RZ"} :
        \/ f = "DX" /\ node.SupportDX
        \/ f = "DY" /\ node.SupportDY
        \/ f = "DZ" /\ node.SupportDZ
        \/ f = "RX" /\ node.SupportRX
        \/ f = "RY" /\ node.SupportRY
        \/ f = "RZ" /\ node.SupportRZ}

\* The restraints each support policy stands for.
PolicyRestraints(policy) ==
    IF policy = "Fixed" THEN {"DX", "DY", "DZ", "RX", "RY"}
    ELSE IF policy = "Pinned" THEN {"DX", "DY", "DZ"}
    ELSE {}

OnLeft(node) == node.X = R(0)
OnRight(node) == node.X = R(width)
OnBottom(node) == node.Y = R(0)
OnTop(node) == node.Y = R(height)
OnEdge(node) == OnLeft(node) \/ OnRight(node) \/ OnBottom(node) \/ OnTop(node)
IsCorner(node) == (OnLeft(node) \/ OnRight(node)) /\ (OnBottom(node) \/ OnTop(node))

\* The policy of the first edge a node lies on, in the order left, right,
\* bottom, top.
FirstEdgePolicy(node) ==
    IF OnLeft(node) THEN left_support
    ELSE IF OnRight(node) THEN right_support
    ELSE IF OnBottom(node) THEN bot_support
    ELSE top_support

\* C3: the example wall (120 x 240, mesh size 6, four fixed edges, one band
\* from 0 to 240 with equal end pressures p) has after its analyze() 861
\* nodes and 800 quadrilaterals, DX, DY, DZ, RX and RY restrained on every
\* perimeter node, and the one pressure p on every quadrilateral.
C3_ExampleWall ==
    (last = "analyze" /\ Len(loads) = 1) =>
        /\ Len(fem.Nodes) = 861
        /\ Len(fem.Quads) = 800
        /\ \A k \in 1..Len(fem.Nodes) :
              OnEdge(fem.Nodes[k]) =>
                  {"DX", "DY", "DZ", "RX", "RY"} \subseteq Restrained(fem.Nodes[k])
        /\ \A q \in 1..Len(fem.Quads) :
              fem.Quads[q].pressures = << <<R(loads[1][3]), "Case 1">> >>

C3_Witness ==
    /\ last = "analyze" /\ outcome = "done" /\ Len(loads) = 1
    /\ loads[1] = <<0, 240, 2, 2>>
    /\ Len(fem.Quads) = 800
    /\ fem.Quads[800].pressures = << <<R(2), "Case 1">> >>

\* C5: a corner node has exactly the restraints of the first edge it lies on
\* in the order left, right, bottom, top, never those of both its edges.
C5_CornerPrecedence ==
    \A k \in 1..Len(fem.Nodes) :
        IsCorner(fem.Nodes[k]) =>
            Restrained(fem.Nodes[k]) = PolicyRestraints(FirstEdgePolicy(fem.Nodes[k]))

\* The node at (0, 0) of a wall with a free left edge and a fixed bottom
\* edge is left without restraints.
C5_Witness ==
    /\ last = "analyze" /\ left_support = "Free" /\ bot_support = "Fixed"
    /\ \E k \in 1..Len(fem.Nodes) :
          /\ fem.Nodes[k].X = R(0) /\ fem.Nodes[k].Y = R(0)
          /\ Restrained(fem.Nodes[k]) = {}

\* C6: the restraints of a node are those of the policy that applies to it:
\* DX, DY, DZ for "Pinned", DX, DY, DZ, RX, RY for "Fixed", none for "Free"
\* and for an unrecognised policy; RZ is never set and an interior node has
\* no restraint.
C6_SupportFrame ==
    \A k \in 1..Len(fem.Nodes) :
        LET node == fem.Nodes[k]
        IN  /\ ~node.SupportRZ
            /\ Restrained(node) =
                  IF OnEdge(node) THEN PolicyRestraints(FirstEdgePolicy(node)) ELSE {}

\* A 2 x 2 wall analysed: the interior node is free, the bottom edge is
\* pinned, the top edge is fixed, the right edge has an unrecognised policy.
C6_Witness ==
    /\ last = "analyze" /\ width = 2 /\ height = 2
    /\ bot_support = "Pinned" /\ top_support = "Fixed" /\ right_support = "Roller"
    /\ \E k \in 1..Len(fem.Nodes) :
          ~OnEdge(fem.Nodes[k]) /\ Restrained(fem.Nodes[k]) = {}
    /\ \E k \in 1..Len(fem.Nodes) :
          /\ OnBottom(fem.Nodes[k]) /\ ~OnLeft(fem.Nodes[k]) /\ ~OnRight(fem.Nodes[k])
          /\ Restrained(fem.Nodes[k]) = {"DX", "DY", "DZ"}
    /\ \E k \in 1..Len(fem.Nodes) :
          /\ OnTop(fem.Nodes[k]) /\ ~OnLeft(fem.Nodes[k]) /\ ~OnRight(fem.Nodes[k])
          /\ Restrained(fem.Nodes[k]) = {"DX", "DY", "DZ", "RX", "RY"}
    /\ \E k \in 1..Len(fem.Nodes) :
          OnRight(fem.Nodes[k]) /\ Restrained(fem.Nodes[k]) = {}

\* The polynomial p^2 + mz_r^2 + my_r^4 + 3.5 p^2 mz_r^2 + 3 p^6 my_r^2
\* + 4.5 mz_r^4 my_r^2 as terms <<c, a, b, d>> standing for
\* c * p^a * my_r^b * mz_r^d.
YieldTerms ==
    << <<R(1), 2, 0, 0>>, <<R(1), 0, 0, 2>>, <<R(1), 0, 4, 0>>,
       <<Rat(7, 2), 2, 0, 2>>, <<R(3), 6, 2, 0>>, <<Rat(9, 2), 0, 2, 4>> >>

\* x^n for n >= 0, and 0 for the n = -1 that the derivative of a constant
\* asks for (its factor is 0).
RPowOrZero(r, n) == IF n < 0 THEN R(0) ELSE RPow(r, n)

RECURSIVE SumTerms(_, _, _, _, _, _)
\* The sum of the terms from k on, each differentiated once with respect to
\* its variable number v (1: fx, 2: my, 3: mz; 0: not differentiated), at
\* the ratios p, my_r, mz_r; strength is the plastic strength of variable v.
SumTerms(k, v, strength, p, my_r, mz_r) ==
    IF k > Len(YieldTerms) THEN R(0)
    ELSE LET t == YieldTerms[k]
             e(i) == IF i = v THEN t[i + 1] - 1 ELSE t[i + 1]
             factor == IF v = 0 THEN R(1) ELSE Rat(t[v + 1], strength)
             value == RMul(RMul(t[1], factor),
                           RMul(RPowOrZero(p, e(1)),
                                RMul(RPowOrZero(my_r, e(2)), RPowOrZero(mz_r, e(3)))))
         IN  RAdd(value, SumTerms(k + 1, v, strength, p, my_r, mz_r))

\* The polynomial (v = 0) or its partial derivative (v = 1, 2, 3) at the
\* arguments of the last call.
Yield(v) ==
    SumTerms(1, v,
             IF v = 1 THEN Py(section) ELSE IF v = 2 THEN Mpy(section) ELSE Mpz(section),
             Rat(point.fx, Py(section)), Rat(point.my, Mpy(section)),
             Rat(point.mz, Mpz(section)))

\* C10: Phi returns the polynomial, and G returns its exact partial
\* derivatives with respect to fx, my and mz in the layout
\* [dFx, 0, 0, 0, dMy, dMz].
C10_ExactGradient ==
    /\ result.call = "Phi" => result.value = Yield(0)
    /\ result.call = "G" =>
          result.value = <<Yield(1), R(0), R(0), R(0), Yield(2), Yield(3)>>

\* The parts of C10 that the code meets: the value of Phi, the layout of G,
\* and the derivatives with respect to fx and mz.
C10_PhiAndTwoDerivatives ==
    /\ result.call = "Phi" => result.value = Yield(0)
    /\ result.call = "G" =>
          /\ result.value[1] = Yield(1) /\ result.value[6] = Yield(3)
          /\ result.value[2] = R(0) /\ result.value[3] = R(0) /\ result.value[4] = R(0)

\* What G returns for dMy: the derivative of the polynomial with my_r^2 in
\* the place of my_r^4.
C10_dMyOfSquare ==
    result.call = "G" =>
        result.value[5] =
            RAdd(RSub(Yield(2), Rat(4 * pow(point.my, 3), pow(Mpy(section), 4))),
                 Rat(2 * point.my, pow(Mpy(section), 2)))


----------------------------------------------------------------------------
(* Properties of the connectivity and of the lifts *)

\* The key of the node at a position of fem.Nodes, 0 for no node.
KeyOf(pos) == IF pos = 0 THEN 0 ELSE fem.Nodes[pos].Name

\* The row of a node key under row-major numbering, cols + 1 nodes a row.
NodeRow(key, cols) == (key - 1) \div (cols + 1)

\* C11: every quadrilateral of the model has as corners i, j, m, n the
\* bottom-left, bottom-right, top-right and top-left node of the grid cell
\* of its key under row-major node numbering (j = i+1, n = i+cols+1,
\* m = n+1, i and j in one node row, n and m in the next), the four are
\* distinct nodes that were in the model when it was added, and the keys
\* increase by one in lift/row/column order from P1 within a mesh generation.
\* (Whether the top row lies strictly above the bottom row is C12's matter;
\* here it is not below it after the first mesh generation.)
C11_GridCell ==
    \A q \in 1..Len(fem.Quads) :
        LET quad == fem.Quads[q]
            cols == num_cols(width, mesh_size)
            pl_width == Rat(width, cols)
            id == quad.Name
            i == KeyOf(quad.iNode)
            j == KeyOf(quad.jNode)
            m == KeyOf(quad.mNode)
            n == KeyOf(quad.nNode)
        IN  /\ quad.iNode # 0 /\ quad.jNode # 0 /\ quad.mNode # 0 /\ quad.nNode # 0
            /\ Cardinality({quad.iNode, quad.jNode, quad.mNode, quad.nNode}) = 4
            /\ Cardinality({i, j, m, n}) = 4
            /\ i = id + ((id - 1) \div cols)
            /\ j = i + 1
            /\ n = i + cols + 1
            /\ m = n + 1
            /\ NodeRow(i, cols) = NodeRow(j, cols)
            /\ NodeRow(n, cols) = NodeRow(m, cols)
            /\ NodeRow(n, cols) = NodeRow(i, cols) + 1
            /\ fem.Nodes[quad.iNode].Y = fem.Nodes[quad.jNode].Y
            /\ fem.Nodes[quad.nNode].Y = fem.Nodes[quad.mNode].Y
            /\ fem.Nodes[quad.iNode].X = RMul(R((id - 1) % cols), pl_width)
            /\ fem.Nodes[quad.jNode].X = RAdd(fem.Nodes[quad.iNode].X, pl_width)
            /\ fem.Nodes[quad.nNode].X = fem.Nodes[quad.iNode].X
            /\ fem.Nodes[quad.mNode].X = fem.Nodes[quad.jNode].X
            /\ (width > 0 /\ height > 0 /\ mesh_size > 0 /\ n_analyze = 1) =>
                   RLe(fem.Nodes[quad.iNode].Y, fem.Nodes[quad.nNode].Y)
            /\ IF q = 1 THEN id = 1
               ELSE \/ id = fem.Quads[q - 1].Name + 1
                    \/ n_analyze > 1 /\ id = 1
            /\ n_analyze = 1 => id = q

\* A 3 x 3 wall of mesh size 1 with a band boundary at 1, meshed once: three
\* columns, a lift of one row under a lift of two rows; the last
\* quadrilateral P9 is on the nodes N11, N12, N16, N15.
C11_Witness ==
    /\ last = "analyze" /\ n_analyze = 1
    /\ width = 3 /\ height = 3 /\ mesh_size = 1
    /\ loads = << <<0, 1, 1, 1>> >>
    /\ Len(fem.Nodes) = 16 /\ Len(fem.Quads) = 9
    /\ fem.Quads[9].Name = 9
    /\ KeyOf(fem.Quads[9].iNode) = 11 /\ KeyOf(fem.Quads[9].jNode) = 12
    /\ KeyOf(fem.Quads[9].mNode) = 16 /\ KeyOf(fem.Quads[9].nNode) = 15
    /\ fem.Nodes[fem.Quads[9].iNode].Y = R(2)
    /\ fem.Nodes[fem.Quads[9].mNode].Y = R(3)

\* C12: on a wall of positive height, whatever the load bands, the rows of
\* nodes of one mesh generation have strictly increasing Y coordinates from
\* 0 on, and no quadrilateral has zero height.
C12_PositiveLifts ==
    (Meshed /\ n_analyze = 1 /\ height > 0) =>
        LET per == num_cols(width, mesh_size) + 1
        IN  /\ \A k \in 1..Len(fem.Nodes) :
                  IF k <= per THEN fem.Nodes[k].Y = R(0)
                  ELSE RLt(fem.Nodes[k - per].Y, fem.Nodes[k].Y)
            /\ \A q \in 1..Len(fem.Quads) :
                  /\ RLt(fem.Nodes[fem.Quads[q].iNode].Y, fem.Nodes[fem.Quads[q].nNode].Y)
                  /\ RLt(fem.Nodes[fem.Quads[q].jNode].Y, fem.Nodes[fem.Quads[q].mNode].Y)

\* C12, bands inside the wall: when no band boundary is negative the rows
\* of nodes do rise strictly.
C12_PositiveLiftsInside ==
    (\A b \in BandBoundaries : b >= 0) => C12_PositiveLifts

====
